---- MODULE Spec2Model ----
(***************************************************************************)
(* State-machine model of download_podcast.py (iono.fm podcast downloader):*)
(* the retry decorator, the completeness verifier, the resumable           *)
(* downloader, download_file, the per-item body of main's download loop    *)
(* and the metadata resolver.                                              *)
(*                                                                         *)
(* A file's content is a sequence of bytes; one model byte stands for one  *)
(* unit of data and one model chunk for one iter_content chunk.  SHA-256   *)
(* is modelled as an injective encoding of the content.                    *)
(***************************************************************************)
EXTENDS Integers, Sequences, FiniteSets, TLC

\* ---------------------------------------------------------------- bounds
MaxLocalLen == 2          \* longest local file present before the item is processed
MaxRemoteLen == 2         \* longest remote resource
MaxEnclosures == 2        \* most enclosures of one feed entry
MaxScripts == 1           \* most <script> elements of one landing page
MaxItems == 2             \* most entries of the feed

\* ------------------------------------------------------ program constants
max_retries == 3          \* @retry_on_failure(max_retries=3, ...)
delay == 1                \* @retry_on_failure(..., delay=1, ...)
backoff == 2              \* @retry_on_failure(..., backoff=2)
ChunkSize == 1            \* iter_content(chunk_size=8192), in model bytes

Byte == {0, 1}
possible_extensions == <<"mp3", "m4a">>
Exts == {possible_extensions[i] : i \in 1..Len(possible_extensions)}

None == -1                \* Python's None where an integer may stand

\* ------------------------------------------------------------ sequences
SeqsUpTo(S, n) == UNION {[1..k -> S] : k \in 0..n}

Min(a, b) == IF a < b THEN a ELSE b

\* compute_file_hash: SHA-256 of the content, as an injective encoding
RECURSIVE compute_file_hash(_)
compute_file_hash(data) ==
    IF data = <<>> THEN 1
    ELSE 2 * compute_file_hash(SubSeq(data, 1, Len(data) - 1)) + data[Len(data)]

MaxLen == IF MaxLocalLen > MaxRemoteLen THEN MaxLocalLen ELSE MaxRemoteLen

\* entity tags: 0 stands for no (or an empty) ETag header, 1..MaxTag-1 are
\* the hashes of the contents up to MaxLen, MaxTag is a tag that is no hash
MaxTag == compute_file_hash([i \in 1..MaxLen |-> 1]) + 1

VARIABLES
    mode,             \* which operation of the program this behaviour runs
    pc,               \* position of the single thread of control
    \* ---- command line and feed item
    recheck,          \* args.recheck
    \* ---- environment
    fs,               \* the download directory: extension -> content, for the item's base name
    remote,           \* content of the remote audio resource
    \* ---- main's download loop
    ext,              \* extension of filepath, from get_file_extension
    success_count,
    \* ---- retry_on_failure.wrapper
    fn,               \* the wrapped function being run
    attempt,
    current_delay,
    exc,              \* exception in flight ("none" when there is none)
    \* ---- check_file_completeness
    rss_enclosure_length, \* argument: the feed-declared byte length (None when absent)
    probe,            \* outcome of the HEAD probe of the current invocation
    verdict,          \* (is_complete, local_size, message) returned to download_file
    \* ---- download_file_with_resume
    initial_pos,
    req,              \* the GET request of the current attempt
    status,           \* status code of the GET response (0: no response)
    body,             \* response body not yet delivered by iter_content
    \* ---- resolver
    entry,            \* the feed entry: rss_ep_num, enclosures
    preferred_quality, \* config['preferred_quality']
    page,             \* the landing page as fetched: what extract_audio_url reads
    page_meta,        \* the landing page as fetched: its title, description, author
    resolved,         \* value returned by get_audio_url_and_metadata
    \* ---- observation (history of the run, not program state)
    calls,            \* invocations of the wrapped function by the current wrapper call
    fails,            \* RequestExceptions raised to the current wrapper call
    sleeps,           \* time.sleep calls of the current wrapper call
    outcome,          \* how the current wrapper call ended: "none", "returned", "raised"
    gets,             \* GET requests sent to the audio URL
    heads,            \* HEAD requests sent to the audio URL
    page_gets,        \* GET requests sent to the landing page
    probes,           \* HEAD probes sent by check_file_completeness
    written,          \* bytes written by the current download attempt
    fs0,              \* fs when the item's processing began
    fsAtCall,         \* fs when the wrapped function was last invoked
    \* ---- main, over the whole feed
    feed,             \* feed.entries: episode_id, rss_ep_num, pub_date of each entry
    short_names,      \* args.short_names
    cache,            \* the in-memory cache: episode -> entry
    cache_file,       \* cache.json in the download directory
    processed_episodes,
    og_title,         \* main's local og_title, bound by the resolver calls
    download_dir,     \* "None" until the first entry has been resolved
    idx,              \* position of the loop main is in (resolution, then download)
    exit_status,      \* sys.exit status, or the exception that ended the process
    files,            \* media files that are complete in the download directory
    \* ---- observation of a run of main
    run_no,           \* 1: first run, 2: the run after it
    loaded,           \* the cache document as this run read it
    last_write,       \* how this run's latest write of cache.json ended
    page_fetches,     \* landing-page GETs of this run, per entry
    media_gets,       \* download_file calls of this run that sent a GET to an audio URL
    unverified,       \* a complete file was fetched again for lack of evidence
    names,            \* file name this run used for each episode it tried to download
    failed,           \* episodes whose download this run reported as failed
    prev,             \* order and names of the first run, kept for the second
    interrupt_at      \* where a KeyboardInterrupt was raised in this run ("none": nowhere)

\* fixed once the behaviour has begun
inputVars == <<mode, recheck, remote, entry, preferred_quality, fs0>>
\* the wrapper's loop state (pc, exc and fails go with Return and Raise)
wrapVars == <<fn, attempt, current_delay, calls, sleeps, outcome>>
\* locals of the wrapped functions
localVars == <<probe, initial_pos, req, status, body, written, page, page_meta>>
\* requests sent
netVars == <<gets, heads, page_gets, probes>>

\* main's state over the whole feed, and its observation
runVars == <<feed, short_names, cache, cache_file, processed_episodes, og_title,
             download_dir, idx, exit_status, files, run_no, loaded, last_write,
             page_fetches, media_gets, unverified, names, failed, prev, interrupt_at>>
\* the state of one item's processing (pc, exc and success_count apart)
itemVars == <<fails, fs, ext, verdict, rss_enclosure_length, resolved, fsAtCall,
              inputVars, wrapVars, localVars, netVars>>

vars == <<pc, exc, fails, fs, ext, success_count, verdict, rss_enclosure_length, resolved, fsAtCall,
          inputVars, wrapVars, localVars, netVars, runVars>>

\* ------------------------------------------------------------ values
NoProbe == [kind |-> "none", content_length |-> 0, etag |-> 0]
NoVerdict == [is_complete |-> FALSE, local_size |-> None, message |-> "none"]
NoReq == [sent |-> FALSE, range |-> None]

\* A URL is known by a name and by which of the substrings the program looks
\* for its lower-cased text contains.  NoUrl is Python's None, EmptyUrl is ''.
UrlSubstrings == {"mp3", "m4a", "high", "medium", "low"}
NoUrl == [id |-> "None", has |-> {}]
EmptyUrl == [id |-> "", has |-> {}]

NoEntry == [rss_ep_num |-> None, enclosures |-> <<>>]
NoPage == [state |-> "none"]
NoMeta == [state |-> "none"]
NoResolved == [audio_url |-> NoUrl, html_ep_num |-> None, description |-> "none",
               og_title |-> "none", author |-> "none"]

\* outcomes of the HEAD probe of check_file_completeness:
\*   "error"     requests.head or raise_for_status raised a RequestException
\*   "malformed" the Content-Length header is no integer (int() raises ValueError)
\*   "ok"        a response with Content-Length (0 when absent) and ETag (0 when absent)
\* The entity tags tried are: none, the hash of each local file, a tag that
\* is the hash of no file.
ETags(fsys) == {0, MaxTag} \cup {compute_file_hash(fsys[e]) : e \in DOMAIN fsys}

ProbeOutcomes(fsys) ==
    {[kind |-> "error", content_length |-> 0, etag |-> 0],
     [kind |-> "malformed", content_length |-> 0, etag |-> 0]}
    \cup [kind : {"ok"}, content_length : 0..MaxLen, etag : ETags(fsys)]

FileSystems == UNION {[S -> SeqsUpTo(Byte, MaxLocalLen)] : S \in SUBSET Exts}

\* ------------------------------------------------- values of a run of main
\* process exit: sys.exit(0), sys.exit(2), sys.exit(3), sys.exit(4); status 1
\* is what the interpreter returns when an exception leaves main uncaught
ExitSuccess == 0
ExitUncaught == 1
ExitNoFeed == 2
ExitDeclined == 3
ExitInterrupted == 4

\* a text is named by what it is and the episode it belongs to
Text(kind, id) == [kind |-> kind, of |-> id]
Unbound == Text("unbound", 0)

EmptyMap == [k \in {} |-> 0]

\* cache.json: absent, unparseable, or a JSON object episode -> entry
AbsentFile == [state |-> "absent", doc |-> EmptyMap]
CorruptFile == [state |-> "corrupt", doc |-> EmptyMap]
ValidFile(doc) == [state |-> "valid", doc |-> doc]
NotLoaded == [state |-> "none", doc |-> EmptyMap]

NoPrev == [order |-> <<>>, names |-> EmptyMap]

\* main is not running: the behaviour follows one item only
RunIdle ==
    /\ feed = <<>> /\ short_names = FALSE
    /\ cache = EmptyMap /\ cache_file = AbsentFile
    /\ processed_episodes = <<>> /\ og_title = Unbound /\ download_dir = "None"
    /\ idx = 0 /\ exit_status = None /\ files = {}
    /\ run_no = 0 /\ loaded = NotLoaded /\ last_write = "none"
    /\ page_fetches = EmptyMap /\ media_gets = 0 /\ unverified = FALSE
    /\ names = EmptyMap /\ failed = {} /\ prev = NoPrev /\ interrupt_at = "none"

\* ---------------------------------------------------------------- Init
InitDownload ==
    /\ mode = "download"
    /\ pc = "main_head"
    /\ recheck \in BOOLEAN
    /\ rss_enclosure_length = None
    /\ fs \in FileSystems
    /\ remote \in SeqsUpTo(Byte, MaxRemoteLen) \ {<<>>}
    /\ ext = "none"
    /\ success_count = 0
    /\ fn = "none" /\ attempt = 0 /\ current_delay = delay /\ exc = "none"
    /\ probe = NoProbe /\ verdict = NoVerdict
    /\ initial_pos = 0 /\ req = NoReq /\ status = 0 /\ body = <<>>
    /\ entry = NoEntry /\ preferred_quality = "medium"
    /\ page = NoPage /\ page_meta = NoMeta /\ resolved = NoResolved
    /\ calls = 0 /\ fails = 0 /\ sleeps = 0 /\ outcome = "none"
    /\ gets = 0 /\ heads = 0 /\ page_gets = 0 /\ probes = 0 /\ written = 0
    /\ fs0 = fs /\ fsAtCall = fs
    /\ RunIdle

\* ------------------------------------------------- retry_on_failure
\* a wrapper that catches every exception (except Exception)
IsRetried_any(e) == TRUE

\* except requests.RequestException
IsRetried(e) == e = "RequestException"

\* a wrapper whose last-attempt test is off by one
IsLastAttempt_late(a) == a = max_retries

\* if attempt == max_retries - 1: raise
IsLastAttempt(a) == a = max_retries - 1

\* first statement of each wrapped function
Entry(f) ==
    CASE f = "check_file_completeness" -> "cfc_local"
      [] f = "download_file_with_resume" -> "dl_request"
      [] f = "get_audio_url_and_metadata" -> "gm_fetch"

\* where the caller goes on when the wrapper returns
AfterReturn(f) ==
    CASE f = "check_file_completeness" -> "df_decide"
      [] f = "download_file_with_resume" -> "main_saved"
      [] f = "get_audio_url_and_metadata" -> "main_resolved"

\* where an exception leaving the wrapper is handled: the download loop's
\* except Exception; the resolution loop has no handler for it
AfterRaise(f) ==
    CASE f = "check_file_completeness" -> "main_except"
      [] f = "download_file_with_resume" -> "main_except"
      [] f = "get_audio_url_and_metadata" -> "main_crashed"

\* wrapper(*args, **kwargs) is entered: current_delay = delay, attempt = 0
CallWrapped(f) ==
    /\ fn' = f
    /\ attempt' = 0
    /\ current_delay' = delay
    /\ exc' = "none"
    /\ calls' = 0 /\ fails' = 0 /\ sleeps' = 0 /\ outcome' = "none"
    /\ pc' = "wrap_call"

\* the wrapped function returns to the wrapper
Return == pc' = "wrap_ret" /\ exc' = "none" /\ fails' = fails

\* the wrapped function raises e to the wrapper
Raise(e) ==
    /\ pc' = "wrap_exc"
    /\ exc' = e
    /\ fails' = IF e = "RequestException" THEN fails + 1 ELSE fails

\* the wrapped function has returned or raised: its locals are gone
LocalsGone ==
    /\ probe' = NoProbe
    /\ initial_pos' = 0 /\ req' = NoReq /\ status' = 0 /\ body' = <<>> /\ written' = 0
    /\ page' = NoPage /\ page_meta' = NoMeta

\* for attempt in range(max_retries): try: return func(*args, **kwargs);
\* after the loop: return None
WrapperInvoke ==
    /\ pc = "wrap_call"
    /\ IF attempt < max_retries
       THEN /\ pc' = Entry(fn)
            /\ calls' = calls + 1
            /\ fsAtCall' = fs
            /\ UNCHANGED <<outcome, exc>>
       ELSE /\ outcome' = "returned"
            /\ IF fn = "download_file_with_resume"
               THEN pc' = AfterReturn(fn) /\ exc' = exc
               ELSE pc' = AfterRaise(fn) /\ exc' = "TypeError"
            /\ UNCHANGED <<calls, fsAtCall>>
    /\ UNCHANGED <<fn, attempt, current_delay, sleeps, fails, rss_enclosure_length>>
    /\ UNCHANGED <<fs, ext, success_count, verdict, resolved, inputVars, localVars, netVars>>
    /\ UNCHANGED runVars

\* return func(*args, **kwargs): the value goes to the caller
WrapperReturn ==
    /\ pc = "wrap_ret"
    /\ outcome' = "returned"
    /\ pc' = AfterReturn(fn)
    /\ LocalsGone
    /\ rss_enclosure_length' = None
    /\ UNCHANGED <<fn, attempt, current_delay, calls, sleeps, exc, fails>>
    /\ UNCHANGED <<fs, ext, success_count, verdict, resolved, fsAtCall, inputVars, netVars>>
    /\ UNCHANGED runVars

\* except requests.RequestException as e: raise on the last attempt, else
\* sleep, multiply the delay and go round the loop; any other exception
\* is not caught
WrapperExcept ==
    /\ pc = "wrap_exc"
    /\ IF IsRetried(exc)
       THEN IF IsLastAttempt(attempt)
            THEN /\ outcome' = "raised"
                 /\ pc' = AfterRaise(fn)
                 /\ UNCHANGED <<attempt, current_delay, sleeps>>
            ELSE /\ sleeps' = sleeps + 1
                 /\ current_delay' = current_delay * backoff
                 /\ attempt' = attempt + 1
                 /\ pc' = "wrap_call"
                 /\ UNCHANGED outcome
       ELSE /\ outcome' = "raised"
            /\ pc' = AfterRaise(fn)
            /\ UNCHANGED <<attempt, current_delay, sleeps>>
    /\ rss_enclosure_length' = IF pc' = "wrap_call" THEN rss_enclosure_length ELSE None
    /\ LocalsGone
    /\ UNCHANGED <<fn, calls, exc, fails>>
    /\ UNCHANGED <<fs, ext, success_count, verdict, resolved, fsAtCall, inputVars, netVars>>
    /\ UNCHANGED runVars

\* --------------------------------------------- check_file_completeness
\* for ext in possible_extensions: if os.path.exists(base_filepath + ext): ... break
\* ("none" when the loop finds no file)
existing_filepath(fsys) ==
    IF \E i \in 1..Len(possible_extensions) : possible_extensions[i] \in DOMAIN fsys
    THEN possible_extensions[
             CHOOSE i \in 1..Len(possible_extensions) :
                 /\ possible_extensions[i] \in DOMAIN fsys
                 /\ \A j \in 1..(i - 1) : possible_extensions[j] \notin DOMAIN fsys]
    ELSE "none"

\* a verifier that looks at the size before the entity tag
EvidenceKind_sizeFirst(server_hash, source_size, feed_length) ==
    IF source_size > 0 THEN "size"
    ELSE IF server_hash # 0 THEN "hash"
    ELSE IF feed_length # None /\ feed_length > 0 THEN "RSS"
    ELSE "none"

\* lines 384, 391, 397: which evidence decides, in the order of the if/elif chain
EvidenceKind(server_hash, source_size, feed_length) ==
    IF server_hash # 0 THEN "hash"
    ELSE IF source_size > 0 THEN "size"
    ELSE IF feed_length # None /\ feed_length > 0 THEN "RSS"
    ELSE "none"

\* a verifier that trusts any file at least as long as declared
SameSize_atLeast(local_size, expected) == local_size >= expected

\* local_size == source_size, local_size == rss_enclosure_length
SameSize(local_size, expected) == local_size = expected

\* lines 377-409: the decision after the HEAD request, for the file found (its
\* content `data`), the probe outcome p and the feed-declared length
Decide(data, p, feed_length) ==
    LET local_size == Len(data)
        source_size == p.content_length
        server_hash == p.etag
        local_hash == compute_file_hash(data)
        kind == EvidenceKind(server_hash, source_size, feed_length)
    IN  IF p.kind = "error"
        THEN [is_complete |-> FALSE, local_size |-> local_size, message |-> "network error"]
        ELSE IF kind = "hash"
        THEN IF local_hash = server_hash
             THEN [is_complete |-> TRUE, local_size |-> local_size, message |-> "hash match"]
             ELSE [is_complete |-> FALSE, local_size |-> local_size, message |-> "hash mismatch"]
        ELSE IF kind = "size"
        THEN IF SameSize(local_size, source_size)
             THEN [is_complete |-> TRUE, local_size |-> local_size, message |-> "size match"]
             ELSE [is_complete |-> FALSE, local_size |-> local_size, message |-> "size mismatch"]
        ELSE IF kind = "RSS"
        THEN IF SameSize(local_size, feed_length)
             THEN [is_complete |-> TRUE, local_size |-> local_size, message |-> "RSS match"]
             ELSE [is_complete |-> FALSE, local_size |-> local_size, message |-> "RSS mismatch"]
        ELSE [is_complete |-> FALSE, local_size |-> local_size, message |-> "cannot verify"]

\* lines 355-375: look for the file under each extension; no file and an empty
\* file return at once, without a probe
CfcLocal ==
    /\ pc = "cfc_local"
    /\ LET found == existing_filepath(fs)
       IN  IF found = "none"
           THEN /\ verdict' = [is_complete |-> FALSE, local_size |-> None, message |-> "new file"]
                /\ Return
           ELSE IF Len(fs[found]) = 0
           THEN /\ verdict' = [is_complete |-> FALSE, local_size |-> None, message |-> "empty file"]
                /\ Return
           ELSE /\ pc' = "cfc_probe"
                /\ UNCHANGED <<verdict, exc, fails>>
    /\ UNCHANGED <<fs, ext, success_count, resolved, fsAtCall, rss_enclosure_length,
                   inputVars, wrapVars, localVars, netVars>>
    /\ UNCHANGED runVars

\* lines 377-409: the HEAD request and the decision; a RequestException is
\* caught inside the function, a ValueError of int() is not
CfcProbe ==
    /\ pc = "cfc_probe"
    /\ \E p \in ProbeOutcomes(fs) :
         /\ probe' = p
         /\ IF p.kind = "malformed"
            THEN Raise("ValueError") /\ UNCHANGED verdict
            ELSE /\ verdict' = Decide(fs[existing_filepath(fs)], p, rss_enclosure_length)
                 /\ Return
    /\ probes' = probes + 1
    /\ heads' = heads + 1
    /\ UNCHANGED <<fs, ext, success_count, resolved, fsAtCall, inputVars, wrapVars>>
    /\ UNCHANGED <<rss_enclosure_length, initial_pos, req, status, body, written, page, page_meta, gets, page_gets>>
    /\ UNCHANGED runVars

\* ------------------------------------------- download_file_with_resume
\* what the server may answer to a GET of the audio URL whose Range header
\* starts at `range` (None: no Range header).  A server may ignore Range
\* and answer 200 with the whole resource.
ServerResponses(range) ==
    {[status |-> 503, body |-> <<>>], [status |-> 200, body |-> remote]}
    \cup (IF range # None /\ range < Len(remote)
          THEN {[status |-> 206, body |-> SubSeq(remote, range + 1, Len(remote))]}
          ELSE {})
    \cup (IF range # None /\ range >= Len(remote)
          THEN {[status |-> 416, body |-> <<>>]}
          ELSE {})

\* if os.path.exists(filepath): initial_pos = os.path.getsize(filepath)
InitialPos(fsys, e) == IF e \in DOMAIN fsys THEN Len(fsys[e]) ELSE 0

\* a downloader that never sets the Range header
RangeHeader_never(pos) == None

\* if initial_pos > 0: headers['Range'] = f'bytes={initial_pos}-'
RangeHeader(pos) == IF pos > 0 THEN pos ELSE None

\* lines 414-433: the request; 416 returns, an error status raises
DlRequest ==
    /\ pc = "dl_request"
    /\ LET pos == InitialPos(fs, ext)
           range == RangeHeader(pos)
       IN  /\ initial_pos' = pos
           /\ req' = [sent |-> TRUE, range |-> range]
           /\ \/ /\ status' = 0 /\ body' = <<>>
                 /\ Raise("RequestException")
              \/ \E r \in ServerResponses(range) :
                    /\ status' = r.status
                    /\ IF r.status = 416
                       THEN body' = <<>> /\ Return
                       ELSE IF r.status >= 400
                       THEN body' = <<>> /\ Raise("RequestException")
                       ELSE /\ body' = r.body
                            /\ pc' = "dl_open"
                            /\ UNCHANGED <<exc, fails>>
    /\ gets' = gets + 1
    /\ written' = 0
    /\ UNCHANGED <<fs, ext, success_count, verdict, resolved, fsAtCall, inputVars, wrapVars>>
    /\ UNCHANGED <<rss_enclosure_length, probe, page, page_meta, heads, page_gets, probes>>
    /\ UNCHANGED runVars

\* mode = 'ab' if initial_pos > 0 else 'wb'
OpenMode(pos) == IF pos > 0 THEN "ab" ELSE "wb"

\* with open(filepath, mode) as f: 'wb' creates or truncates the file
DlOpen ==
    /\ pc = "dl_open"
    /\ \/ /\ fs' = IF OpenMode(initial_pos) = "wb"
                   THEN [e \in DOMAIN fs \cup {ext} |-> IF e = ext THEN <<>> ELSE fs[e]]
                   ELSE fs
          /\ pc' = "dl_chunk"
          /\ UNCHANGED <<exc, fails, body>>
       \/ /\ Raise("IOError")
          /\ body' = <<>>
          /\ UNCHANGED fs
    /\ UNCHANGED <<ext, success_count, verdict, resolved, fsAtCall, inputVars, wrapVars, netVars>>
    /\ UNCHANGED <<rss_enclosure_length, probe, initial_pos, req, status, written, page, page_meta>>
    /\ UNCHANGED runVars

\* for chunk in response.iter_content(chunk_size): f.write(chunk); the
\* stream may break (a RequestException) and the write may fail (an IOError)
DlChunk ==
    /\ pc = "dl_chunk"
    /\ body # <<>>
    /\ \/ LET n == Min(ChunkSize, Len(body))
              chunk == SubSeq(body, 1, n)
          IN  /\ fs' = [fs EXCEPT ![ext] = @ \o chunk]
              /\ body' = SubSeq(body, n + 1, Len(body))
              /\ written' = written + n
              /\ UNCHANGED <<pc, exc, fails>>
       \/ /\ Raise("RequestException")
          /\ body' = <<>>
          /\ UNCHANGED <<fs, written>>
       \/ /\ Raise("IOError")
          /\ body' = <<>>
          /\ UNCHANGED <<fs, written>>
    /\ UNCHANGED <<ext, success_count, verdict, resolved, fsAtCall, inputVars, wrapVars, netVars>>
    /\ UNCHANGED <<rss_enclosure_length, probe, initial_pos, req, status, page, page_meta>>
    /\ UNCHANGED runVars

\* the body is exhausted: final_size = os.path.getsize(filepath); return
DlDone ==
    /\ pc = "dl_chunk"
    /\ body = <<>>
    /\ Return
    /\ UNCHANGED <<fs, ext, success_count, verdict, resolved, fsAtCall, rss_enclosure_length,
                   inputVars, wrapVars, localVars, netVars>>
    /\ UNCHANGED runVars

\* ------------------------------------------------------- download_file
\* download_file with the recheck flag inverted
ShouldSkip_inverted(is_complete, rc) == is_complete /\ rc

\* if is_complete and not recheck: return
ShouldSkip(is_complete, rc) == is_complete /\ ~rc

\* lines 471-478, after check_file_completeness has returned
DownloadFile ==
    /\ pc = "df_decide"
    /\ IF ShouldSkip(verdict.is_complete, recheck)
       THEN /\ pc' = "main_saved"
            /\ UNCHANGED <<exc, fails, wrapVars, verdict>>
       ELSE /\ CallWrapped("download_file_with_resume")
            /\ verdict' = [verdict EXCEPT !.local_size = None, !.message = "logged"]
    /\ UNCHANGED <<fs, ext, success_count, resolved, fsAtCall, rss_enclosure_length,
                   inputVars, localVars, netVars>>
    /\ UNCHANGED runVars

\* -------------------------------------------------- get_file_extension
\* content_type: "none" (no response), "" or the media type; url_has: which
\* of ".mp3", ".m4a" the lower-cased URL contains
get_file_extension(url_has, content_type, preferred_format) ==
    IF preferred_format # "auto" THEN preferred_format
    ELSE IF content_type \in {"audio/mpeg", "audio/mp3"} THEN "mp3"
    ELSE IF content_type \in {"audio/mp4", "audio/m4a"} THEN "m4a"
    ELSE IF ".mp3" \in url_has THEN "mp3"
    ELSE IF ".m4a" \in url_has THEN "m4a"
    ELSE "m4a"

ContentTypes == {"none", "", "audio/mpeg", "audio/mp3", "audio/mp4", "audio/m4a", "text/html"}

\* ------------------------------------------- main: the download loop
\* lines 616-631: the Content-Type probe, the file name, the call of
\* download_file, which calls check_file_completeness
MainHead ==
    /\ pc = "main_head"
    /\ \E content_type \in ContentTypes, url_has \in SUBSET {".mp3", ".m4a"},
          preferred_format \in {"auto", "mp3", "m4a"} :
         ext' = get_file_extension(url_has, content_type, preferred_format)
    /\ \E enclosure_length \in {None} \cup 0..MaxLen :
         rss_enclosure_length' = enclosure_length
    /\ heads' = heads + 1
    /\ CallWrapped("check_file_completeness")
    /\ UNCHANGED <<fs, success_count, verdict, resolved, fsAtCall, inputVars, localVars>>
    /\ UNCHANGED <<gets, page_gets, probes>>
    /\ UNCHANGED runVars

\* logger.info(f"Saved: {filename}"); success_count += 1
MainSaved ==
    /\ pc = "main_saved"
    /\ success_count' = success_count + 1
    /\ pc' = "item_saved"
    /\ UNCHANGED <<exc, fails, fs, ext, verdict, resolved, fsAtCall, rss_enclosure_length,
                   inputVars, wrapVars, localVars, netVars>>
    /\ UNCHANGED runVars

\* except Exception as e: logger.error(...); continue
MainExcept ==
    /\ pc = "main_except"
    /\ pc' = "item_failed"
    /\ UNCHANGED <<exc, fails, fs, ext, success_count, verdict, resolved, fsAtCall, rss_enclosure_length,
                   inputVars, wrapVars, localVars, netVars>>
    /\ UNCHANGED runVars

\* ------------------------------------------------ the metadata resolver
Quality == {"high", "medium", "low"}

\* a table that has the default order for every preference
get_quality_preference_order_default(preferred) == <<"medium", "high", "low">>

\* get_quality_preference_order
get_quality_preference_order(preferred) ==
    CASE preferred = "high" -> <<"high", "medium", "low">>
      [] preferred = "low" -> <<"low", "medium", "high">>
      [] OTHER -> <<"medium", "high", "low">>

\* url and ('mp3' in url.lower() or 'm4a' in url.lower())
IsAudioUrl(url) == url # EmptyUrl /\ url # NoUrl /\ ({"mp3", "m4a"} \cap url.has # {})

\* the fallback loop without its break: the last audio enclosure
RECURSIVE FirstAudioEnclosure_noBreak(_)
FirstAudioEnclosure_noBreak(enclosures) ==
    IF enclosures = <<>> THEN NoUrl
    ELSE IF IsAudioUrl(enclosures[Len(enclosures)]) THEN enclosures[Len(enclosures)]
    ELSE FirstAudioEnclosure_noBreak(SubSeq(enclosures, 1, Len(enclosures) - 1))

\* for enclosure in rss_entry.enclosures: if <audio>: enclosure_url = url; break
RECURSIVE FirstAudioEnclosure(_)
FirstAudioEnclosure(enclosures) ==
    IF enclosures = <<>> THEN NoUrl
    ELSE IF IsAudioUrl(Head(enclosures)) THEN Head(enclosures)
    ELSE FirstAudioEnclosure(Tail(enclosures))

\* enclosure_urls: the audio URLs of the enclosures, in feed order
RECURSIVE AudioEnclosures(_)
AudioEnclosures(enclosures) ==
    IF enclosures = <<>> THEN <<>>
    ELSE IF IsAudioUrl(Head(enclosures))
         THEN <<Head(enclosures)>> \o AudioEnclosures(Tail(enclosures))
         ELSE AudioEnclosures(Tail(enclosures))

\* for url in urls: if quality in url.lower(): return url
RECURSIVE FirstWithQuality(_, _)
FirstWithQuality(urls, quality) ==
    IF urls = <<>> THEN NoUrl
    ELSE IF quality \in Head(urls).has THEN Head(urls)
    ELSE FirstWithQuality(Tail(urls), quality)

\* for quality in quality_order: for url in enclosure_urls: ...; then the
\* first enclosure URL, if there is any (NoUrl: the strategy yields nothing)
RECURSIVE ByQuality(_, _)
ByQuality(urls, quality_order) ==
    IF quality_order = <<>>
    THEN IF urls # <<>> THEN urls[1] ELSE NoUrl
    ELSE IF FirstWithQuality(urls, Head(quality_order)) # NoUrl
         THEN FirstWithQuality(urls, Head(quality_order))
         ELSE ByQuality(urls, Tail(quality_order))

\* the URL a script pattern for `quality` matches
ScriptUrl(quality) == [id |-> "dl.iono.fm", has |-> {"m4a", quality}]

\* for quality in quality_order: match = re.search(pattern, script.string)
RECURSIVE FirstQualityIn(_, _)
FirstQualityIn(quals, quality_order) ==
    IF quality_order = <<>> THEN NoUrl
    ELSE IF Head(quality_order) \in quals THEN ScriptUrl(Head(quality_order))
    ELSE FirstQualityIn(quals, Tail(quality_order))

\* one script: with STATE_FROM_SERVER the quoted "url":"..." patterns are
\* tried first, then (with dl.iono.fm in it) the bare patterns
ScriptMatch(script, quality_order) ==
    IF script.state /\ FirstQualityIn(script.quoted, quality_order) # NoUrl
    THEN FirstQualityIn(script.quoted, quality_order)
    ELSE FirstQualityIn(script.bare, quality_order)

\* for script in scripts: the first script with a match decides
RECURSIVE FromScripts(_, _)
FromScripts(scripts, quality_order) ==
    IF scripts = <<>> THEN NoUrl
    ELSE IF ScriptMatch(Head(scripts), quality_order) # NoUrl
         THEN ScriptMatch(Head(scripts), quality_order)
         ELSE FromScripts(Tail(scripts), quality_order)

\* extract_audio_url (its retry wrapper never sees an exception: the
\* function sends no request)
extract_audio_url(soup, rss_entry, preferred) ==
    LET quality_order == get_quality_preference_order(preferred)
        enclosure_urls == AudioEnclosures(rss_entry.enclosures)
    IN  IF rss_entry.enclosures # <<>> /\ ByQuality(enclosure_urls, quality_order) # NoUrl
        THEN ByQuality(enclosure_urls, quality_order)
        ELSE IF soup.og_audio.present
        THEN soup.og_audio.content
        ELSE IF soup.audio_src # NoUrl /\ soup.audio_src # EmptyUrl
        THEN soup.audio_src
        ELSE IF FromScripts(soup.scripts, quality_order) # NoUrl
        THEN FromScripts(soup.scripts, quality_order)
        ELSE soup.text_url

\* the enclosure URLs a feed entry may carry
EnclosureUrls ==
    {[id |-> "enc_high", has |-> {"m4a", "high"}],
     [id |-> "enc_low", has |-> {"mp3", "low"}],
     [id |-> "enc_ogg", has |-> {}]}

OgUrl == [id |-> "og:audio", has |-> {"m4a"}]
AudioTagUrl == [id |-> "audio.src", has |-> {"mp3"}]
TextUrl == [id |-> "page text", has |-> {"m4a"}]

\* a <script>: whether it holds STATE_FROM_SERVER, the qualities whose quoted
\* pattern matches and the qualities whose bare pattern matches (a quoted
\* match holds a bare one)
ScriptKinds ==
    {s \in [state : BOOLEAN, quoted : SUBSET {"high", "low"}, bare : SUBSET {"high", "low"}] :
        /\ s.quoted \subseteq s.bare
        /\ (~s.state => s.quoted = {})}

\* what extract_audio_url can find on a landing page: the og:audio meta tag
\* (its content None when the attribute is missing), the <audio> src, the
\* scripts, and a match of the URL pattern in the page text
Pages ==
    [state : {"fetched"},
     og_audio : {[present |-> FALSE, content |-> NoUrl],
                 [present |-> TRUE, content |-> NoUrl],
                 [present |-> TRUE, content |-> OgUrl]},
     audio_src : {NoUrl, AudioTagUrl},
     scripts : SeqsUpTo(ScriptKinds, MaxScripts),
     text_url : {NoUrl, TextUrl}]

\* the page's title (og:title, else <title>), the episode number
\* extract_episode_number finds in it, the description meta tag ("absent":
\* no tag) and the author meta tag ("None": no tag)
PageMetas ==
    {m \in [state : {"fetched"},
            page_title : {"", "page title"},
            page_ep_num : {None, 1, 2},
            description : {"absent", "meta description"},
            author : {"None", "meta author"}] :
        m.page_title = "" => m.page_ep_num = None}

\* a reconciliation that prefers the feed's number
html_ep_num_of_feedFirst(page_ep_num, rss_ep_num) ==
    IF rss_ep_num = None THEN page_ep_num ELSE rss_ep_num

\* lines 186-191 of extract_episode_metadata
html_ep_num_of(page_ep_num, rss_ep_num) ==
    IF page_ep_num = None THEN rss_ep_num ELSE page_ep_num

InitResolve ==
    /\ mode = "resolve"
    /\ pc = "main_resolve"
    /\ entry \in [rss_ep_num : {None, 1},
                  enclosures : SeqsUpTo(EnclosureUrls, MaxEnclosures)]
    /\ preferred_quality \in Quality
    /\ recheck = FALSE
    /\ rss_enclosure_length = None
    /\ fs = [e \in {} |-> <<>>]
    /\ remote = <<0>>
    /\ ext = "none"
    /\ success_count = 0
    /\ fn = "none" /\ attempt = 0 /\ current_delay = delay /\ exc = "none"
    /\ probe = NoProbe /\ verdict = NoVerdict
    /\ initial_pos = 0 /\ req = NoReq /\ status = 0 /\ body = <<>>
    /\ page = NoPage /\ page_meta = NoMeta /\ resolved = NoResolved
    /\ calls = 0 /\ fails = 0 /\ sleeps = 0 /\ outcome = "none"
    /\ gets = 0 /\ heads = 0 /\ page_gets = 0 /\ probes = 0 /\ written = 0
    /\ fs0 = fs /\ fsAtCall = fs
    /\ RunIdle

\* main line 574: get_audio_url_and_metadata(ep_url, rss_ep_num, title, entry, config)
MainResolve ==
    /\ pc = "main_resolve"
    /\ CallWrapped("get_audio_url_and_metadata")
    /\ UNCHANGED <<fs, ext, success_count, verdict, rss_enclosure_length, resolved,
                   fsAtCall, inputVars, localVars, netVars>>
    /\ UNCHANGED runVars

\* lines 306-323: the page fetch.  A RequestException is caught inside the
\* function and answered with the feed's data; else the page is parsed and
\* extract_audio_url is called
GmFetch ==
    /\ pc = "gm_fetch"
    /\ page_gets' = page_gets + 1
    /\ \/ /\ page' = [state |-> "failed"]
          /\ resolved' = [audio_url |-> FirstAudioEnclosure(entry.enclosures),
                          html_ep_num |-> entry.rss_ep_num,
                          description |-> "rss_title",
                          og_title |-> "rss_title",
                          author |-> "None"]
          /\ Return
       \/ \E soup \in Pages :
            /\ page' = soup
            /\ resolved' = [resolved EXCEPT
                              !.audio_url = extract_audio_url(soup, entry, preferred_quality)]
            /\ pc' = "gm_meta"
            /\ UNCHANGED <<exc, fails>>
    /\ UNCHANGED <<fs, ext, success_count, verdict, rss_enclosure_length, fsAtCall,
                   inputVars, wrapVars>>
    /\ UNCHANGED <<probe, initial_pos, req, status, body, written, page_meta,
                   gets, heads, probes>>
    /\ UNCHANGED runVars

\* lines 324-338: extract_episode_metadata, extract_author, the enclosure
\* fallback when no audio URL was found
GmMeta ==
    /\ pc = "gm_meta"
    /\ \E m \in PageMetas :
         /\ page_meta' = m
         /\ resolved' =
              [audio_url |->
                   IF resolved.audio_url \in {NoUrl, EmptyUrl} /\ entry.enclosures # <<>>
                      /\ FirstAudioEnclosure(entry.enclosures) # NoUrl
                   THEN FirstAudioEnclosure(entry.enclosures)
                   ELSE resolved.audio_url,
               html_ep_num |-> html_ep_num_of(m.page_ep_num, entry.rss_ep_num),
               description |-> IF m.description # "absent" THEN m.description
                               ELSE m.page_title,
               og_title |-> m.page_title,
               author |-> m.author]
    /\ page' = [state |-> "parsed"]
    /\ Return
    /\ UNCHANGED <<fs, ext, success_count, verdict, rss_enclosure_length, fsAtCall,
                   inputVars, wrapVars, netVars>>
    /\ UNCHANGED <<probe, initial_pos, req, status, body, written>>
    /\ UNCHANGED runVars

\* ------------------------------------- extract_audio_url, called alone
\* the enclosure URLs the selection by quality is tried on: one of each
\* quality, one that names two, one audio URL that names none, one that
\* is no audio URL
CandidateUrls ==
    EnclosureUrls
    \cup {[id |-> "enc_medium", has |-> {"m4a", "medium"}],
          [id |-> "enc_high_low", has |-> {"mp3", "high", "low"}],
          [id |-> "enc_plain", has |-> {"mp3"}]}

\* the call extract_audio_url(soup, rss_entry, config) of line 323, for a
\* parsed page without scripts
InitExtract ==
    /\ mode = "extract"
    /\ pc = "extract_call"
    /\ entry \in [rss_ep_num : {None},
                  enclosures : SeqsUpTo(CandidateUrls, MaxEnclosures)]
    /\ preferred_quality \in Quality
    /\ page \in {soup \in Pages : soup.scripts = <<>>}
    /\ recheck = FALSE
    /\ rss_enclosure_length = None
    /\ fs = [e \in {} |-> <<>>]
    /\ remote = <<0>>
    /\ ext = "none"
    /\ success_count = 0
    /\ fn = "none" /\ attempt = 0 /\ current_delay = delay /\ exc = "none"
    /\ probe = NoProbe /\ verdict = NoVerdict
    /\ initial_pos = 0 /\ req = NoReq /\ status = 0 /\ body = <<>>
    /\ page_meta = NoMeta /\ resolved = NoResolved
    /\ calls = 0 /\ fails = 0 /\ sleeps = 0 /\ outcome = "none"
    /\ gets = 0 /\ heads = 0 /\ page_gets = 0 /\ probes = 0 /\ written = 0
    /\ fs0 = fs /\ fsAtCall = fs
    /\ RunIdle

\* audio_url = extract_audio_url(soup, rss_entry, config)
ExtractAudioUrl ==
    /\ pc = "extract_call"
    /\ resolved' = [resolved EXCEPT
                      !.audio_url = extract_audio_url(page, entry, preferred_quality)]
    /\ pc' = "extract_done"
    /\ UNCHANGED <<exc, fails, fs, ext, success_count, verdict, rss_enclosure_length,
                   fsAtCall, inputVars, wrapVars, localVars, netVars>>
    /\ UNCHANGED runVars

\* ------------------------------------------------------------ main's run
\* One run of main over a feed of up to MaxItems entries.  What one call of
\* get_audio_url_and_metadata and one call of download_file do is modelled
\* step by step above; here each call is one step with the results those
\* steps can have.
\*
\* entry.get('published', ''):
\*   ""         no date
\*   "garbage"  a text no parser accepts
\*   "naive"    a date without a UTC offset (parsed to a naive datetime)
\*   "aware"    a date with a UTC offset, as RFC 822 feeds carry
datetime_min == [aware |-> FALSE, t |-> 0]

parse_publication_date(pub_date_str) ==
    IF pub_date_str = "" THEN datetime_min
    ELSE IF pub_date_str = "garbage" THEN datetime_min
    ELSE IF pub_date_str = "naive" THEN [aware |-> FALSE, t |-> 1]
    ELSE [aware |-> TRUE, t |-> 1]

\* float('inf'): above every number extract_episode_number yields (1..9999)
Infinity == 9999 + 1

\* key=lambda x: (x[0] if x[0] is not None else float('inf'),
\*                parse_publication_date(x[6]), x[5])
SortKey(x) ==
    [ep |-> IF x.html_ep_num # None THEN x.html_ep_num ELSE Infinity,
     date |-> parse_publication_date(x.pub_date),
     id |-> x.episode_id]

\* a < b on the key tuples: the first component that differs decides
KeyLess(a, b) ==
    IF a.ep # b.ep THEN a.ep < b.ep
    ELSE IF a.date # b.date THEN a.date.t < b.date.t
    ELSE a.id < b.id

\* a < b raises TypeError: the numbers are equal and the comparison reaches
\* a naive and an aware datetime
Incomparable(a, b) == a.ep = b.ep /\ a.date.aware # b.date.aware

\* list.sort raises when two keys it has to compare are incomparable; two
\* such keys have equal numbers, so no third key lies between them and
\* every comparison sort has to compare them
SortRaises(eps) ==
    \E i, j \in 1..Len(eps) :
        i < j /\ Incomparable(SortKey(eps[i]), SortKey(eps[j]))

RECURSIVE Insert(_, _)
Insert(sorted, x) ==
    IF sorted = <<>> THEN <<x>>
    ELSE IF KeyLess(SortKey(x), SortKey(sorted[Len(sorted)]))
         THEN Append(Insert(SubSeq(sorted, 1, Len(sorted) - 1), x), sorted[Len(sorted)])
         ELSE Append(sorted, x)

\* processed_episodes.sort(key=...): stable, ascending
RECURSIVE Sorted(_)
Sorted(eps) ==
    IF eps = <<>> THEN <<>>
    ELSE Insert(Sorted(SubSeq(eps, 1, Len(eps) - 1)), eps[Len(eps)])

\* ---- the feed
Item(id, n, d) == [episode_id |-> id, rss_ep_num |-> n, pub_date |-> d]

\* number and date of an entry, where the order of the episodes is at stake
ItemKeys == {<<1, "">>, <<1, "naive">>, <<1, "aware">>, <<2, "garbage">>, <<None, "">>}

FeedsByKey ==
    UNION {{[i \in 1..n |-> Item(i, ks[i][1], ks[i][2])] : ks \in [1..n -> ItemKeys]} :
               n \in 0..MaxItems}

\* a feed of n numbered, dated entries, the newest (highest number) first
PlainFeed(n) == [i \in 1..n |-> Item(i, n + 1 - i, "aware")]

\* ---- the resolver, as main sees it
\* what get_audio_url_and_metadata returns for an entry whose page is
\* fetched: the page's description and title, with or without an audio URL
\* (the result after a failed page fetch is followed in GmFetch)
ResolverResults(item) ==
    LET id == item.episode_id
        from_page == [audio |-> TRUE,
                      html_ep_num |-> item.rss_ep_num,
                      description |-> Text("description", id),
                      og_title |-> Text("og_title", id)]
    IN  {from_page, [from_page EXCEPT !.audio = FALSE]}

NoResult == [audio |-> FALSE, html_ep_num |-> None, description |-> Unbound,
             og_title |-> Unbound]

\* ---- the cache
\* keys of the entry main writes (lines 579-587)
entry_keys == {"html_ep_num", "title", "audio_url", "description", "episode_id",
               "pub_date", "enclosure_length"}
\* required_keys = ['html_ep_num', 'audio_url', 'description']
required_keys == {"html_ep_num", "audio_url", "description"}

\* cache[ep_url] = {...}
NewEntry(item, r) ==
    [keys |-> entry_keys,
     html_ep_num |-> r.html_ep_num,
     description |-> r.description,
     pub_date |-> item.pub_date]

\* an entry an earlier version or run left in cache.json
OldEntry(item, keys) ==
    [keys |-> keys,
     html_ep_num |-> item.rss_ep_num,
     description |-> Text("cached description", item.episode_id),
     pub_date |-> item.pub_date]

OldKeySets == {entry_keys, entry_keys \ {"title"}, entry_keys \ {"audio_url"}}

\* cache.json before the first run: absent, unparseable, or holding one entry
CacheFiles(f) ==
    {AbsentFile, CorruptFile}
    \cup {ValidFile([k \in {f[i].episode_id} |-> OldEntry(f[i], ks)]) :
              i \in 1..Len(f), ks \in OldKeySets}

\* except (json.JSONDecodeError, IOError)
CaughtAtLoad(e) == e \in {"JSONDecodeError", "IOError"}

\* json.load(f): raises JSONDecodeError on an unparseable document
LoadRaises(file) == file.state = "corrupt" /\ ~CaughtAtLoad("JSONDecodeError")

\* lines 548-554: cache after the load
LoadedCache(file) == IF file.state = "valid" THEN file.doc ELSE EmptyMap

\* lines 556-559: if ep_url in cache and not args.recheck: ... if all(key in data ...)
IsCacheHit(c, k, rc) == k \in DOMAIN c /\ ~rc /\ required_keys \subseteq c[k].keys

\* an assignment that replaces the mapping by the one new entry
CachePut_onlyNew(c, k, e) == [j \in {k} |-> e]

\* cache[ep_url] = {...}
CachePut(c, k, e) == [j \in DOMAIN c \cup {k} |-> IF j = k THEN e ELSE c[j]]

\* json.dump(cache, f): the document written
Dumped(c) == ValidFile(c)

\* the tuple appended to processed_episodes
Processed(id, n, description, d) ==
    [episode_id |-> id, html_ep_num |-> n, description |-> description, pub_date |-> d]

Ids(eps) == [i \in 1..Len(eps) |-> eps[i].episode_id]

\* ---- file names
\* name_source = og_title if args.short_names or (...) else description; the
\* descriptions of the model are no longer than filename_max_length
NameSource(short, description, title) == IF short THEN title ELSE description

\* f"{sanitize_filename(name_source, ...)}_{episode_id}{ext}"
FileName(source, id) == [source |-> source, id |-> id]

\* a bare except, which catches KeyboardInterrupt too
IsException_any(e) == TRUE

\* except Exception: KeyboardInterrupt is no Exception
IsException(e) == e # "KeyboardInterrupt"

\* ---- ending the process
Exit(code) == pc' = "exited" /\ exit_status' = code /\ UNCHANGED exc

Uncaught(e) == pc' = "exited" /\ exit_status' = ExitUncaught /\ exc' = e

ItemIdle ==
    /\ rss_enclosure_length = None
    /\ fs = EmptyMap /\ remote = <<0>> /\ ext = "none"
    /\ fn = "none" /\ attempt = 0 /\ current_delay = delay /\ exc = "none"
    /\ probe = NoProbe /\ verdict = NoVerdict
    /\ initial_pos = 0 /\ req = NoReq /\ status = 0 /\ body = <<>>
    /\ entry = NoEntry /\ preferred_quality = "medium"
    /\ page = NoPage /\ page_meta = NoMeta /\ resolved = NoResolved
    /\ calls = 0 /\ fails = 0 /\ sleeps = 0 /\ outcome = "none"
    /\ gets = 0 /\ heads = 0 /\ page_gets = 0 /\ probes = 0 /\ written = 0
    /\ fs0 = fs /\ fsAtCall = fs

\* main is about to fetch the feed
InitRun ==
    /\ mode = "run"
    /\ pc = "fetch_feed"
    /\ \/ /\ feed \in FeedsByKey
          /\ recheck = FALSE /\ short_names = FALSE
          /\ cache_file = AbsentFile
       \/ /\ feed \in {PlainFeed(n) : n \in 0..MaxItems}
          /\ recheck \in BOOLEAN /\ short_names \in BOOLEAN
          /\ cache_file \in CacheFiles(feed)
    /\ success_count = 0
    /\ ItemIdle
    /\ cache = EmptyMap
    /\ processed_episodes = <<>> /\ og_title = Unbound /\ download_dir = "None"
    /\ idx = 0 /\ exit_status = None /\ files = {}
    /\ run_no = 1 /\ loaded = NotLoaded /\ last_write = "none"
    /\ page_fetches = [i \in 1..Len(feed) |-> 0] /\ media_gets = 0 /\ unverified = FALSE
    /\ names = EmptyMap /\ failed = {} /\ prev = NoPrev /\ interrupt_at = "none"

\* lines 491-510: both candidate feeds are tried; without a feed title the
\* process exits with status 2
FetchFeed ==
    /\ pc = "fetch_feed"
    /\ \E titled \in BOOLEAN :
         IF titled
         THEN pc' = "resolve_loop" /\ idx' = 1 /\ UNCHANGED <<exit_status, exc>>
         ELSE Exit(ExitNoFeed) /\ UNCHANGED idx
    /\ UNCHANGED <<success_count, itemVars, feed, short_names, cache, cache_file,
                   processed_episodes, og_title, download_dir, files, run_no, loaded,
                   last_write, page_fetches, media_gets, unverified, names, failed, prev,
                   interrupt_at>>

\* lines 541-595: the body of the resolution loop for the entry at idx.
\* For the first entry (download_dir is None) the resolver is called for the
\* author, the directory is made and cache.json is read; then the cache is
\* asked, and on a miss the resolver is called, the entry is cached and
\* cache.json is rewritten
ResolveItem ==
    /\ pc = "resolve_loop"
    /\ idx <= Len(feed)
    /\ LET item == feed[idx]
           k == item.episode_id
           first == download_dir = "None"
       IN  \E r1 \in (IF first THEN ResolverResults(item) ELSE {NoResult}),
              makedirs_ok \in (IF first THEN BOOLEAN ELSE {TRUE}) :
             LET cache1 == IF first THEN LoadedCache(cache_file) ELSE cache
                 og1 == IF first THEN r1.og_title ELSE og_title
                 fetches1 == IF first THEN [page_fetches EXCEPT ![k] = @ + 1]
                             ELSE page_fetches
             IN  IF ~makedirs_ok \/ (first /\ LoadRaises(cache_file))
                 THEN /\ Uncaught(IF makedirs_ok THEN "JSONDecodeError" ELSE "OSError")
                      /\ og_title' = og1
                      /\ page_fetches' = fetches1
                      /\ UNCHANGED <<cache, cache_file, processed_episodes, download_dir,
                                     idx, loaded, last_write>>
                 ELSE /\ download_dir' = "set"
                      /\ loaded' = IF first THEN cache_file ELSE loaded
                      /\ IF IsCacheHit(cache1, k, recheck)
                         THEN IF "title" \in cache1[k].keys
                              THEN /\ processed_episodes' =
                                         Append(processed_episodes,
                                                Processed(k, cache1[k].html_ep_num,
                                                          cache1[k].description,
                                                          cache1[k].pub_date))
                                   /\ cache' = cache1
                                   /\ og_title' = og1
                                   /\ page_fetches' = fetches1
                                   /\ idx' = idx + 1
                                   /\ UNCHANGED <<pc, exc, exit_status, cache_file, last_write>>
                              ELSE /\ Uncaught("KeyError")
                                   /\ cache' = cache1
                                   /\ og_title' = og1
                                   /\ page_fetches' = fetches1
                                   /\ UNCHANGED <<processed_episodes, idx, cache_file, last_write>>
                         ELSE \E r2 \in ResolverResults(item), write_ok \in BOOLEAN :
                                /\ og_title' = r2.og_title
                                /\ page_fetches' = [fetches1 EXCEPT ![k] = @ + 1]
                                /\ idx' = idx + 1
                                /\ UNCHANGED <<pc, exc, exit_status>>
                                /\ IF ~r2.audio
                                   THEN /\ cache' = cache1
                                        /\ UNCHANGED <<processed_episodes, cache_file, last_write>>
                                   ELSE /\ cache' = CachePut(cache1, k, NewEntry(item, r2))
                                        /\ cache_file' = IF write_ok THEN Dumped(cache')
                                                         ELSE cache_file
                                        /\ last_write' = IF write_ok THEN "ok" ELSE "failed"
                                        /\ processed_episodes' =
                                              Append(processed_episodes,
                                                     Processed(k, r2.html_ep_num, r2.description,
                                                               item.pub_date))
    /\ UNCHANGED <<success_count, itemVars, feed, short_names, files, run_no,
                   media_gets, unverified, names, failed, prev, interrupt_at>>

\* lines 597-602: processed_episodes.sort(...); a TypeError of the
\* comparison leaves main uncaught
SortEpisodes ==
    /\ pc = "resolve_loop"
    /\ idx > Len(feed)
    /\ IF SortRaises(processed_episodes)
       THEN Uncaught("TypeError") /\ UNCHANGED processed_episodes
       ELSE /\ processed_episodes' = Sorted(processed_episodes)
            /\ pc' = "confirm"
            /\ UNCHANGED <<exc, exit_status>>
    /\ UNCHANGED <<success_count, itemVars, feed, short_names, cache, cache_file, og_title,
                   download_dir, idx, files, run_no, loaded, last_write, page_fetches,
                   media_gets, unverified, names, failed, prev, interrupt_at>>

\* lines 604-612: the prompt, unless --force; an interrupt at the prompt and
\* any answer but 'y' exit with status 3
Confirm ==
    /\ pc = "confirm"
    /\ \E answer \in {"--force", "y", "n", "KeyboardInterrupt"} :
         /\ IF answer \in {"--force", "y"}
            THEN /\ pc' = "download_loop"
                 /\ idx' = 1
                 /\ success_count' = 0
                 /\ UNCHANGED <<exc, exit_status>>
            ELSE Exit(ExitDeclined) /\ UNCHANGED <<idx, success_count>>
         /\ interrupt_at' = IF answer = "KeyboardInterrupt" THEN "prompt" ELSE interrupt_at
    /\ UNCHANGED <<itemVars, feed, short_names, cache, cache_file, processed_episodes,
                   og_title, download_dir, files, run_no, loaded, last_write, page_fetches,
                   media_gets, unverified, names, failed, prev>>

\* lines 615-637: the body of the download loop for the episode at idx.  The
\* file name is built, download_file is called; it returns without a GET
\* when the file is complete by the probe and recheck is off, returns after
\* a transfer, or raises
DownloadItem ==
    /\ pc = "download_loop"
    /\ idx <= Len(processed_episodes)
    /\ LET x == processed_episodes[idx]
           filename == FileName(NameSource(short_names, x.description, og_title),
                                x.episode_id)
       IN  /\ names' = CachePut(names, x.episode_id, filename)
           /\ \/ /\ filename \in files /\ ~recheck
                 /\ success_count' = success_count + 1
                 /\ idx' = idx + 1
                 /\ UNCHANGED <<pc, exc, exit_status, files, media_gets, unverified, failed,
                                interrupt_at>>
              \/ /\ files' = files \cup {filename}
                 /\ media_gets' = media_gets + 1
                 /\ unverified' = (unverified \/ (filename \in files /\ ~recheck))
                 /\ success_count' = success_count + 1
                 /\ idx' = idx + 1
                 /\ UNCHANGED <<pc, exc, exit_status, failed, interrupt_at>>
              \/ \E e \in {"RequestException", "IOError", "KeyboardInterrupt"} :
                   /\ media_gets' = media_gets + 1
                   /\ unverified' = (unverified \/ (filename \in files /\ ~recheck))
                   /\ interrupt_at' = IF e = "KeyboardInterrupt" THEN "transfer"
                                      ELSE interrupt_at
                   /\ IF IsException(e)
                      THEN /\ failed' = failed \cup {x.episode_id}
                           /\ idx' = idx + 1
                           /\ UNCHANGED <<pc, exc, exit_status>>
                      ELSE /\ Exit(ExitInterrupted)
                           /\ UNCHANGED <<failed, idx>>
                   /\ UNCHANGED <<success_count, files>>
    /\ UNCHANGED <<itemVars, feed, short_names, cache, cache_file, processed_episodes,
                   og_title, download_dir, run_no, loaded, last_write, page_fetches, prev>>

\* lines 639, 645-646: the summary and sys.exit(0)
Finish ==
    /\ pc = "download_loop"
    /\ idx > Len(processed_episodes)
    /\ Exit(ExitSuccess)
    /\ UNCHANGED <<success_count, itemVars, feed, short_names, cache, cache_file,
                   processed_episodes, og_title, download_dir, idx, files, run_no, loaded,
                   last_write, page_fetches, media_gets, unverified, names, failed, prev,
                   interrupt_at>>

\* lines 641-643: a KeyboardInterrupt raised inside main's try block, between
\* two entries of either loop or at the sort
Interrupt ==
    /\ pc \in {"resolve_loop", "download_loop"}
    /\ Exit(ExitInterrupted)
    /\ interrupt_at' = pc
    /\ UNCHANGED <<success_count, itemVars, feed, short_names, cache, cache_file,
                   processed_episodes, og_title, download_dir, idx, files, run_no, loaded,
                   last_write, page_fetches, media_gets, unverified, names, failed, prev>>

\* the program is started again, over the same feed and the same directory,
\* after a run without recheck that downloaded every file
Rerun ==
    /\ pc = "exited"
    /\ exit_status = ExitSuccess
    /\ run_no = 1
    /\ ~recheck
    /\ success_count = Len(processed_episodes)
    /\ pc' = "fetch_feed"
    /\ run_no' = 2
    /\ prev' = [order |-> Ids(processed_episodes), names |-> names]
    /\ success_count' = 0
    /\ cache' = EmptyMap
    /\ processed_episodes' = <<>> /\ og_title' = Unbound /\ download_dir' = "None"
    /\ idx' = 0 /\ exit_status' = None
    /\ loaded' = NotLoaded /\ last_write' = "none"
    /\ page_fetches' = [i \in 1..Len(feed) |-> 0] /\ media_gets' = 0 /\ unverified' = FALSE
    /\ names' = EmptyMap /\ failed' = {} /\ interrupt_at' = "none"
    /\ UNCHANGED <<exc, itemVars, feed, short_names, cache_file, files>>

\* ------------------------------------------------------ specifications
NextDownload ==
    \/ MainHead
    \/ WrapperInvoke
    \/ WrapperReturn
    \/ WrapperExcept
    \/ CfcLocal
    \/ CfcProbe
    \/ DownloadFile
    \/ DlRequest
    \/ DlOpen
    \/ DlChunk
    \/ DlDone
    \/ MainSaved
    \/ MainExcept

NextResolve ==
    \/ MainResolve
    \/ WrapperInvoke
    \/ WrapperReturn
    \/ GmFetch
    \/ GmMeta

NextRun ==
    \/ FetchFeed
    \/ ResolveItem
    \/ SortEpisodes
    \/ Confirm
    \/ DownloadItem
    \/ Finish
    \/ Interrupt
    \/ Rerun

NextExtract == ExtractAudioUrl

Init == InitDownload \/ InitResolve \/ InitRun \/ InitExtract

Next == NextDownload \/ NextResolve \/ NextRun \/ NextExtract

\* one item through main's download loop
SpecDownload == InitDownload /\ [][NextDownload]_vars

\* one feed entry through the resolver
SpecResolve == InitResolve /\ [][NextResolve]_vars

\* main over a whole feed, and once more after a successful run
SpecRun == InitRun /\ [][NextRun]_vars

\* extract_audio_url applied to a page and a feed entry
SpecExtract == InitExtract /\ [][NextExtract]_vars

\* either
Spec == Init /\ [][Next]_vars

\* ================================================================ claims
CFC == "check_file_completeness"
DL == "download_file_with_resume"
GM == "get_audio_url_and_metadata"

\* the file the verifier looks at: the first that exists, in the order of
\* possible_extensions
FoundData == fs[existing_filepath(fs)]

\* ---------------------------------------------------------------- C1
\* C1: for a file the verifier classifies as complete, with recheck not
\* requested, the item's processing sends no GET to the audio URL and leaves
\* the files as they were: once the verdict is complete, the downloader is
\* never entered, only HEAD requests have been sent, and the item is saved.
C1_CompleteFileNoGet ==
    (verdict.is_complete /\ ~recheck) =>
        /\ gets = 0
        /\ fs = fs0
        /\ fn = CFC
        /\ heads >= 1
        /\ pc \in {"wrap_ret", "df_decide", "main_saved", "item_saved"}

C1_Witness ==
    /\ pc = "item_saved" /\ verdict.is_complete /\ ~recheck
    /\ gets = 0 /\ heads = 2 /\ success_count = 1

\* ---------------------------------------------------------------- C2
C2_Inv ==
    (fn = DL /\ req.sent /\ ext \in DOMAIN fsAtCall /\ Len(fsAtCall[ext]) > 0) =>
        /\ req.range = Len(fsAtCall[ext])
        /\ (status = 416 =>
               pc = "wrap_ret" /\ exc = "none" /\ written = 0 /\ fs = fsAtCall)

C2_Step ==
    (pc = "wrap_ret" /\ fn = DL /\ status = 416) =>
        (pc' = "main_saved" /\ outcome' = "returned" /\ fs' = fs)

\* C2: when download_file_with_resume is called with a destination file of
\* size n > 0, the GET carries a Range starting at n; on a 416 response the
\* function returns without an exception, has written no byte, the files are
\* as they were at the call, and the wrapper returns to its caller.
C2_ResumeRangeAnd416 == [](C2_Inv) /\ [][C2_Step]_vars

C2_Witness ==
    /\ pc = "wrap_ret" /\ fn = DL /\ status = 416
    /\ req.range = 2 /\ Len(fs[ext]) = 2 /\ attempt = 1

\* ---------------------------------------------------------------- C3
\* positive evidence for the file `data`: an entity tag equal to its hash, or
\* a declared length > 0 (Content-Length, or the feed's) equal to its size
PositiveEvidence(data, p, feed_length) ==
    /\ p.kind = "ok"
    /\ \/ p.etag # 0 /\ p.etag = compute_file_hash(data)
       \/ p.content_length > 0 /\ p.content_length = Len(data)
       \/ feed_length # None /\ feed_length > 0 /\ feed_length = Len(data)

C3_Inv ==
    (pc = "wrap_ret" /\ fn = CFC) =>
        LET found == existing_filepath(fs)
        IN  /\ verdict.is_complete =>
                 /\ found # "none"
                 /\ Len(fs[found]) > 0
                 /\ PositiveEvidence(fs[found], probe, rss_enclosure_length)
            /\ (\/ found = "none"
                \/ Len(fs[found]) = 0
                \/ probe.kind = "error"
                \/ /\ probe.kind = "ok" /\ probe.etag = 0 /\ probe.content_length = 0
                   /\ ~(rss_enclosure_length # None /\ rss_enclosure_length > 0))
               => ~verdict.is_complete

C3_Attempted == (fn = DL /\ outcome # "none") => gets >= 1

C3_Step ==
    (pc = "df_decide" /\ ~verdict.is_complete) => (pc' = "wrap_call" /\ fn' = DL)

\* C3: the verifier reports complete only on positive evidence; with no
\* file, an empty file, a failed probe or a probe without entity tag and
\* without a positive length (and no positive feed length) it reports not
\* complete, and download_file then calls the downloader, which sends a GET.
C3_NeverCompleteWithoutEvidence == [](C3_Inv /\ C3_Attempted) /\ [][C3_Step]_vars

C3_Witness ==
    /\ pc = "main_except" /\ fn = DL /\ ~verdict.is_complete /\ gets = max_retries
    /\ fs0 # <<>> /\ existing_filepath(fs0) # "none"

\* ---------------------------------------------------------------- C4
\* C4: for a non-empty file and a successful probe the evidence is used in
\* strict order: an entity tag decides by hash equality alone; without one a
\* Content-Length > 0 decides by size; without both a feed length > 0
\* decides by size; with none the file is not complete.
C4_EvidencePriority ==
    (pc = "wrap_ret" /\ fn = CFC /\ probe.kind = "ok") =>
        LET data == FoundData
            feed_length == rss_enclosure_length
            feed_known == feed_length # None /\ feed_length > 0
        IN  /\ probe.etag # 0 =>
                 (verdict.is_complete <=> probe.etag = compute_file_hash(data))
            /\ (probe.etag = 0 /\ probe.content_length > 0) =>
                 (verdict.is_complete <=> Len(data) = probe.content_length)
            /\ (probe.etag = 0 /\ probe.content_length = 0 /\ feed_known) =>
                 (verdict.is_complete <=> Len(data) = feed_length)
            /\ (probe.etag = 0 /\ probe.content_length = 0 /\ ~feed_known) =>
                 ~verdict.is_complete

C4_Witness ==
    /\ pc = "wrap_ret" /\ fn = CFC /\ probe.kind = "ok"
    /\ probe.etag # 0 /\ probe.etag # compute_file_hash(FoundData)
    /\ probe.content_length = Len(FoundData)
    /\ rss_enclosure_length = Len(FoundData)
    /\ ~verdict.is_complete

\* ---------------------------------------------------------------- C5
\* C5: the verdict is "no file" only if no file exists under any recognized
\* extension, and a file that is complete by the probe under one extension
\* is reported complete whatever lies under the other extension.
C5_ExtensionAgnostic ==
    (pc = "wrap_ret" /\ fn = CFC) =>
        /\ (verdict.message = "new file" => DOMAIN fs \cap Exts = {})
        /\ (probe.kind = "ok" /\
            \E e \in DOMAIN fs :
                Len(fs[e]) > 0 /\ Decide(fs[e], probe, rss_enclosure_length).is_complete)
           => verdict.is_complete

\* ---------------------------------------------------------------- C6
\* C6: one wrapper call invokes the function at most max_retries times,
\* starting from attempt 0; it returns on the first success (every earlier
\* invocation failed, none follows); when every invocation raised a
\* RequestException there were exactly max_retries of them, max_retries - 1
\* sleeps, and the wrapper raises: it never returns then.
C6_BoundedRetry ==
    /\ calls <= max_retries
    /\ calls <= fails + 1
    /\ (pc = "wrap_call" /\ calls = 0) => (attempt = 0 /\ current_delay = delay)
    /\ outcome = "returned" => (calls = fails + 1 /\ exc = "none")
    /\ (outcome = "raised" /\ exc = "RequestException") =>
           (calls = max_retries /\ fails = max_retries /\ sleeps = max_retries - 1)
    /\ fails >= max_retries => (outcome # "returned" /\ pc # "main_saved")

C6_Witness ==
    /\ pc = "main_except" /\ fn = DL /\ outcome = "raised" /\ exc = "RequestException"
    /\ calls = max_retries /\ gets = max_retries

\* ---------------------------------------------------------------- C7
\* C7: only a RequestException leads to a sleep and another invocation; any
\* other exception leaves the wrapper on the attempt where it was raised.
C7_OnlyTransientRetried ==
    /\ sleeps <= fails
    /\ calls <= fails + 1
    /\ exc \notin {"none", "RequestException"} =>
           /\ pc \in {"wrap_exc", "main_except", "item_failed"}
           /\ calls = fails + 1
           /\ sleeps = fails
           /\ current_delay = delay * backoff ^ fails

C7_Witness ==
    /\ pc = "item_failed" /\ exc = "IOError" /\ fails = 1 /\ calls = 2 /\ sleeps = 1

\* ---------------------------------------------------------------- C8
\* C8: a transfer's I/O error or network error leads to another attempt,
\* and the item's download is given up only when the attempts are used up.
C8_FailedOnlyAfterBudget ==
    (pc = "main_except" /\ fn = DL) => calls = max_retries

\* ---------------------------------------------------------------- C9
\* C9: the degraded feed-only result is returned only after max_retries page
\* fetches, and the "network error" verdict only after max_retries probes.
C9_RetriedBeforeDegrading ==
    /\ (pc = "wrap_ret" /\ fn = GM /\ page.state = "failed") => page_gets = max_retries
    /\ (pc = "wrap_ret" /\ fn = CFC /\ probe.kind = "error") => probes = max_retries

\* ---------------------------------------------------------------- C10
\* the first enclosure whose URL is non-empty and names a recognized audio
\* container
FirstRecognized(enclosures) ==
    IF \E i \in 1..Len(enclosures) : IsAudioUrl(enclosures[i])
    THEN enclosures[CHOOSE i \in 1..Len(enclosures) :
                        /\ IsAudioUrl(enclosures[i])
                        /\ \A j \in 1..(i - 1) : ~IsAudioUrl(enclosures[j])]
    ELSE NoUrl

\* C10: when the page fetch fails the resolver raises nothing and returns the
\* feed's data: the first recognized audio enclosure, the feed title as
\* description and as display title, no author, the feed's episode number.
C10_DegradedResult ==
    /\ (pc = "wrap_ret" /\ fn = GM /\ page.state = "failed") =>
           /\ exc = "none"
           /\ resolved = [audio_url |-> FirstRecognized(entry.enclosures),
                          html_ep_num |-> entry.rss_ep_num,
                          description |-> "rss_title",
                          og_title |-> "rss_title",
                          author |-> "None"]
    /\ pc # "main_crashed"

C10_Witness ==
    /\ pc = "wrap_ret" /\ fn = GM /\ page.state = "failed"
    /\ Len(entry.enclosures) = 2
    /\ ~IsAudioUrl(entry.enclosures[1])
    /\ resolved.audio_url = entry.enclosures[2]
    /\ entry.rss_ep_num = 1

\* ============================================== claims on main's run
\* the resolution loop of the run has gone through every entry of the feed
ResolutionDone ==
    mode = "run" /\ (pc \in {"confirm", "download_loop"}
                     \/ (pc = "exited" /\ exit_status = ExitSuccess))

\* the entry this run found in cache.json for episode k holds every key the
\* pipeline reads from it
ValidLoaded(k) ==
    /\ k \in DOMAIN loaded.doc
    /\ (required_keys \cup {"title"}) \subseteq loaded.doc[k].keys

\* ---------------------------------------------------------------- C11
\* C11: an entry without audio URL is skipped and a failed download is
\* counted, every other entry is still resolved and every resolved episode
\* is tried, and the run ends with sys.exit(0): nothing but a failure of the
\* feed or of the output directory ends it with an error.
C11_FailureIsolation ==
    mode = "run" =>
        /\ exit_status = ExitUncaught => exc = "OSError"
        /\ (pc = "exited" /\ exit_status = ExitSuccess) =>
               /\ \A k \in 1..Len(feed) : page_fetches[k] >= 1 \/ ValidLoaded(k)
               /\ DOMAIN names = {processed_episodes[i].episode_id :
                                      i \in 1..Len(processed_episodes)}
               /\ success_count + Cardinality(failed) = Len(processed_episodes)

\* ---------------------------------------------------------------- C12
\* C12 as stated: between two entries of the resolution loop, once an entry
\* has been inserted in this run, cache.json equals the in-memory cache.
C12_WriteThrough ==
    (mode = "run" /\ pc = "resolve_loop" /\ last_write # "none") =>
        cache_file = ValidFile(cache)

\* C12, amended: after an insertion whose write succeeded, cache.json equals
\* the in-memory cache between two entries, and holds every entry loaded
\* and every episode resolved so far; a write that fails is not fatal, and
\* leaves in cache.json no episode the in-memory cache lacks.
C12_WriteThroughWhenWritten ==
    mode = "run" =>
        /\ (pc = "resolve_loop" /\ last_write = "ok") =>
               /\ cache_file = ValidFile(cache)
               /\ \A i \in 1..Len(processed_episodes) :
                      processed_episodes[i].episode_id \in DOMAIN cache_file.doc
               /\ \A k \in DOMAIN loaded.doc : k \in DOMAIN cache_file.doc
        /\ (pc = "resolve_loop" /\ last_write = "failed") =>
               /\ exc = "none"
               /\ cache_file # ValidFile(cache)
               /\ DOMAIN cache_file.doc \subseteq DOMAIN cache

C12_Witness ==
    /\ mode = "run" /\ pc = "resolve_loop" /\ last_write = "ok"
    /\ loaded.state = "valid" /\ DOMAIN loaded.doc # {}
    /\ Cardinality(DOMAIN cache) = 2
    /\ cache_file = ValidFile(cache)

\* ---------------------------------------------------------------- C13
\* C13: an entry of cache.json that lacks a key the pipeline reads is a
\* miss: the episode is resolved again, and no KeyError ends the run.
C13_IncompleteEntryIsMiss ==
    mode = "run" =>
        /\ exc # "KeyError"
        /\ ResolutionDone =>
               \A k \in DOMAIN loaded.doc : ~ValidLoaded(k) => page_fetches[k] >= 1

\* ---------------------------------------------------------------- C14
\* C14: when cache.json is unparseable at load, the cache starts empty and
\* nothing is raised, every episode of the run is resolved from its page,
\* and after a run that ended with sys.exit(0) cache.json is a valid
\* document holding the entries of the run (stated for the runs in which no
\* write of cache.json failed).
C14_CorruptCacheRecovered ==
    mode = "run" =>
        /\ exc # "JSONDecodeError"
        /\ loaded.state = "corrupt" =>
               /\ \A i \in 1..Len(processed_episodes) :
                      page_fetches[processed_episodes[i].episode_id] >= 1
               /\ (pc = "exited" /\ exit_status = ExitSuccess
                                 /\ last_write # "failed") =>
                      cache_file = ValidFile(cache)

\* ---------------------------------------------------------------- C15
\* C15: without recheck, a valid entry found in cache.json is not modified
\* and its episode is not resolved again; with recheck, the episode is
\* resolved again and the entry is replaced by the new resolution.
C15_WriteOncePerIdentity ==
    (mode = "run" /\ loaded.state = "valid") =>
        \A k \in DOMAIN loaded.doc :
            /\ (~recheck /\ ValidLoaded(k)) =>
                   /\ page_fetches[k] = 0
                   /\ k \in DOMAIN cache /\ cache[k] = loaded.doc[k]
                   /\ cache_file.state = "valid" /\ cache_file.doc[k] = loaded.doc[k]
            /\ (recheck /\ ResolutionDone /\ last_write # "failed") =>
                   /\ page_fetches[k] >= 1
                   /\ \E r \in ResolverResults(feed[k]) :
                          /\ cache[k] = NewEntry(feed[k], r)
                          /\ cache_file.doc[k] = NewEntry(feed[k], r)

\* ---------------------------------------------------------------- C16
\* C16: in one run the landing page of an entry is fetched at most once, and
\* not at all when the entry is served from the cache.
C16_PageFetchedAtMostOnce ==
    mode = "run" =>
        \A k \in DOMAIN page_fetches :
            /\ page_fetches[k] <= 1
            /\ (~recheck /\ ValidLoaded(k)) => page_fetches[k] = 0

\* ---------------------------------------------------------------- C17
\* C17: a second run without recheck, over the same feed, after a first run
\* that downloaded every file, in which every entry is served from the
\* cache and every probe confirms the file it finds, sends no GET to an
\* audio URL and has the order and the file names of the first run.
C17_SecondRunIdle ==
    (/\ mode = "run" /\ run_no = 2
     /\ pc = "exited" /\ exit_status = ExitSuccess
     /\ \A k \in 1..Len(feed) : ValidLoaded(k)
     /\ ~unverified) =>
        /\ media_gets = 0
        /\ failed = {}
        /\ Ids(processed_episodes) = prev.order
        /\ names = prev.names

\* ---------------------------------------------------------------- C18
\* the order the episodes are to have: number (none: last), then time (no
\* or unparseable date: first), then identity
OrderedBefore(x, y) ==
    LET nx == IF x.html_ep_num = None THEN Infinity ELSE x.html_ep_num
        ny == IF y.html_ep_num = None THEN Infinity ELSE y.html_ep_num
        tx == IF x.pub_date \in {"", "garbage"} THEN 0 ELSE 1
        ty == IF y.pub_date \in {"", "garbage"} THEN 0 ELSE 1
    IN  \/ nx < ny
        \/ nx = ny /\ tx < ty
        \/ nx = ny /\ tx = ty /\ x.episode_id <= y.episode_id

\* C18: the sort ends for every feed (any two episodes are comparable), and
\* the download sequence is ordered by number, time, identity, with the
\* episodes without number last.
C18_TotalOrder ==
    mode = "run" =>
        /\ exc # "TypeError"
        /\ pc \in {"confirm", "download_loop"} =>
               \A i, j \in 1..Len(processed_episodes) :
                   i < j => OrderedBefore(processed_episodes[i], processed_episodes[j])

\* ---------------------------------------------------------------- C19
C19_Inv ==
    /\ interrupt_at \in {"resolve_loop", "download_loop", "transfer"} =>
           /\ pc = "exited"
           /\ exit_status = ExitInterrupted
           /\ exc = "none"
           /\ interrupt_at = "transfer" =>
                  /\ idx <= Len(processed_episodes)
                  /\ processed_episodes[idx].episode_id \notin failed
                  /\ success_count + Cardinality(failed) = idx - 1
    /\ exit_status = ExitInterrupted =>
           interrupt_at \in {"resolve_loop", "download_loop", "transfer"}
    /\ ExitInterrupted \notin {ExitSuccess, ExitUncaught, ExitNoFeed, ExitDeclined}

C19_Stopped == ~(pc = "exited" /\ exit_status = ExitInterrupted)

\* C19: a KeyboardInterrupt raised in the resolution loop, between two
\* episodes of the download loop or inside a download (backoff, chunk loop)
\* ends the process with status 4, which no other ending has; it is not
\* counted as a failed episode, no exception leaves main, and no step of the
\* run follows.
C19_InterruptExits == [](C19_Inv) /\ [][C19_Stopped]_vars

C19_Witness ==
    /\ mode = "run" /\ interrupt_at = "transfer"
    /\ pc = "exited" /\ exit_status = ExitInterrupted
    /\ idx = 2 /\ success_count = 1 /\ media_gets = 2

\* ---------------------------------------------------------------- C20
\* C20: the file name of an episode is made of that episode's own
\* description or title and its own identity.
C20_NameFromOwnMetadata ==
    mode = "run" =>
        \A k \in DOMAIN names :
            /\ names[k].id = k
            /\ names[k].source.of = k

\* ============================== claims on extraction and on the download
\* a candidate URL a strategy can return: neither None nor ''
Usable(url) == url # NoUrl /\ url # EmptyUrl

\* what each strategy of extract_audio_url finds on `soup` for `rss_entry`,
\* in the order of the function's text: the enclosures by quality, og:audio,
\* the <audio> src, the scripts, the page text
StrategyCandidates(soup, rss_entry, preferred) ==
    LET quality_order == get_quality_preference_order(preferred)
    IN  <<ByQuality(AudioEnclosures(rss_entry.enclosures), quality_order),
          IF soup.og_audio.present THEN soup.og_audio.content ELSE NoUrl,
          soup.audio_src,
          FromScripts(soup.scripts, quality_order),
          soup.text_url>>

\* the candidate of the first strategy that has a usable one (NoUrl: none has)
FirstUsable(candidates) ==
    IF \E i \in 1..Len(candidates) : Usable(candidates[i])
    THEN candidates[CHOOSE i \in 1..Len(candidates) :
                        /\ Usable(candidates[i])
                        /\ \A j \in 1..(i - 1) : ~Usable(candidates[j])]
    ELSE NoUrl

\* ---------------------------------------------------------------- C21
\* C21: extract_audio_url returns the URL of the first strategy, in the
\* order enclosures, og:audio, <audio> src, scripts, page text, that yields
\* a usable URL; a strategy without one (a tag without URL value included)
\* falls through to the next.
C21_FirstStrategyWins ==
    (mode = "resolve" /\ pc = "gm_meta" /\ page.state = "fetched") =>
        resolved.audio_url =
            FirstUsable(StrategyCandidates(page, entry, preferred_quality))

\* ---------------------------------------------------------------- C22
\* the fallback order of each preference
FallbackOrder(preferred) ==
    CASE preferred = "high" -> <<"high", "medium", "low">>
      [] preferred = "medium" -> <<"medium", "high", "low">>
      [] preferred = "low" -> <<"low", "medium", "high">>

\* positions of the candidates that match `quality`
Matching(candidates, quality) ==
    {i \in 1..Len(candidates) : quality \in candidates[i].has}

\* the least number of a non-empty set of numbers
Least(S) == CHOOSE i \in S : \A j \in S : i <= j

\* the first candidate matching the earliest quality of the order that any
\* candidate matches; the first candidate when none matches any
SelectedByQuality(candidates, order) ==
    LET ranks == {k \in 1..Len(order) : Matching(candidates, order[k]) # {}}
    IN  IF ranks = {} THEN candidates[1]
        ELSE candidates[Least(Matching(candidates, order[Least(ranks)]))]

\* C22: when the feed entry has audio enclosures, extract_audio_url returns
\* the first of them that matches the earliest quality, in the fallback
\* order of the preferred quality, that any of them matches, wherever in the
\* list the candidates stand, and the first of them when none matches a
\* quality.
C22_QualitySelection ==
    (mode = "extract" /\ pc = "extract_done"
     /\ AudioEnclosures(entry.enclosures) # <<>>) =>
        resolved.audio_url =
            SelectedByQuality(AudioEnclosures(entry.enclosures),
                              FallbackOrder(preferred_quality))

C22_Witness ==
    /\ mode = "extract" /\ pc = "extract_done"
    /\ preferred_quality = "high"
    /\ Len(entry.enclosures) = 2
    /\ entry.enclosures[1].id = "enc_low" /\ entry.enclosures[2].id = "enc_high"
    /\ resolved.audio_url.id = "enc_high"

\* ---------------------------------------------------------------- C23
\* C23: when the landing page was fetched and parsed, the episode number
\* the resolver returns is the number found in the page's title whenever
\* there is one, also when the feed's number is another, and no exception
\* is raised for it; it is the feed's number when the page has none; it is
\* None only when both are None.
C23_EpisodeNumberReconciled ==
    (mode = "resolve" /\ page.state = "parsed" /\ page_meta.state = "fetched") =>
        /\ exc = "none" /\ pc = "wrap_ret"
        /\ page_meta.page_ep_num # None =>
               resolved.html_ep_num = page_meta.page_ep_num
        /\ page_meta.page_ep_num = None =>
               resolved.html_ep_num = entry.rss_ep_num
        /\ resolved.html_ep_num = None <=>
               (page_meta.page_ep_num = None /\ entry.rss_ep_num = None)

C23_Witness ==
    /\ mode = "resolve" /\ pc = "wrap_ret" /\ page.state = "parsed"
    /\ page_meta.page_ep_num = 2 /\ entry.rss_ep_num = 1
    /\ resolved.html_ep_num = 2

\* ---------------------------------------------------------------- C24
\* the size of the destination file when the current attempt began, which is
\* its size when the attempt before it stopped
SizeAtAttempt == IF ext \in DOMAIN fsAtCall THEN Len(fsAtCall[ext]) ELSE 0

\* the request of each attempt starts at the size the file has
C24_OffsetRecomputed ==
    (fn = DL /\ req.sent) =>
        /\ initial_pos = SizeAtAttempt
        /\ SizeAtAttempt > 0 => req.range = SizeAtAttempt

\* what an attempt after the first receives holds no byte the file already
\* has: the body starts at the offset the attempt began at
C24_NothingFetchedAgain ==
    (fn = DL /\ pc = "dl_open" /\ attempt > 0 /\ SizeAtAttempt > 0) =>
        /\ Len(body) <= Len(remote) - SizeAtAttempt
        /\ body = SubSeq(remote, SizeAtAttempt + 1, Len(remote))

\* no step of the download shortens a file or changes a byte it holds
C24_NeverTruncated ==
    fn = DL =>
        \A e \in DOMAIN fs :
            /\ e \in DOMAIN fs'
            /\ Len(fs'[e]) >= Len(fs[e])
            /\ SubSeq(fs'[e], 1, Len(fs[e])) = fs[e]

\* C24: in one retried download every attempt starts at the current size of
\* the local file, so each attempt asks for the range that begins where the
\* attempt before it stopped writing; the bytes already written are neither
\* truncated nor fetched again, and the file never shrinks.
C24_ResumeAcrossRetries ==
    /\ [](C24_OffsetRecomputed /\ C24_NothingFetchedAgain)
    /\ [][C24_NeverTruncated]_vars

\* ---------------------------------------------------------------- C25
\* the metadata a HEAD probe of the remote resource returns when the server
\* tells the truth: its length, and its hash as entity tag or no entity tag
RemoteMetadata ==
    {[kind |-> "ok", content_length |-> Len(remote), etag |-> t] :
         t \in {0, compute_file_hash(remote)}}

\* the verifier, given metadata p, rejects the non-empty file the item's
\* processing began with for a hash or a size mismatch
RejectedAtStart(p) ==
    /\ existing_filepath(fs0) # "none"
    /\ Len(fs0[existing_filepath(fs0)]) > 0
    /\ Decide(fs0[existing_filepath(fs0)], p, None).message
           \in {"hash mismatch", "size mismatch"}

\* the verifier, run again with metadata p, accepts the file it finds
AcceptedNow(p) ==
    /\ existing_filepath(fs) # "none"
    /\ Decide(fs[existing_filepath(fs)], p, None).is_complete

\* C25: when the verifier has rejected an existing non-empty file for a hash
\* or size mismatch (a local file as long as or longer than the remote one
\* included) and download_file_with_resume then returns without exception,
\* the verifier run again with the same metadata of the remote resource
\* reports the file complete.
C25_DownloadRepairs ==
    (mode = "download" /\ pc = "main_saved" /\ fn = DL /\ outcome = "returned") =>
        \A p \in RemoteMetadata : RejectedAtStart(p) => AcceptedNow(p)

====
